---- MODULE Spec2Model ----
(* graph/graph.py: the Graph record, the graph constructors, the adjacency  *)
(* representations and the degree functions.                                *)
(*                                                                          *)
(* A Python list is an object on the heap: `heap` is the sequence of the     *)
(* list objects alive, a list reference is an index into it.  A Graph is an  *)
(* immutable namedtuple (nodes, edges, is_directed); nodes is always a       *)
(* range(n) and is modelled by n, edges is a list reference.  Every function *)
(* of the module takes the heap it runs on and returns the heap it leaves,    *)
(* the outcome ("ok" or the exception raised) and the value returned.        *)
EXTENDS Integers, Sequences, FiniteSets

VARIABLES heap, store, ret

vars == <<heap, store, ret>>

\* ---------------------------------------------------------------- bounds
\* largest node count passed to a constructor
MaxN == 3
\* the non-positive node counts passed are 0, -1, ..., -MaxBad
MaxBad == 1
\* Graph values the caller holds at once (the module-level G included)
MaxGraphs == 3
\* caller-built graphs: most nodes, most edges
MaxNodes == 3
MaxEdges == 2

None == "None"

\* ------------------------------------------------------- Python helpers
Ok(h, v) == [h |-> h, status |-> "ok", value |-> v]

Raise(h, e) == [h |-> h, status |-> e, value |-> None]

range(n) == 0 .. (n - 1)

Min(S) == CHOOSE x \in S : \A y \in S : x <= y

Max(S) == CHOOSE x \in S : \A y \in S : x >= y

\* a list display or comprehension: a new list object
NewList(h, elems) == [h |-> Append(h, elems), ref |-> Len(h) + 1]

\* list.append: the object is changed in place
ListAppend(h, ref, x) == [h EXCEPT ![ref] = Append(@, x)]

\* a list nothing refers to any more is freed when the call returns
Reclaim(h, st) ==
    LET used == {st[i].edges : i \in DOMAIN st}
        top  == IF used = {} THEN 0 ELSE Max(used)
    IN  IF top >= Len(h) THEN h ELSE SubSeq(h, 1, top)

\* ---------------------------------------------------------------- Graph
Graph(nodes, edges, is_directed) ==
    [nodes |-> nodes, edges |-> edges, is_directed |-> is_directed]

\* the module-level sample graph
G_edges == << <<0, 1>>, <<0, 1>>, <<0, 2>>, <<0, 2>>, <<0, 3>>, <<1, 3>>, <<2, 3>> >>

G == Graph(4, 1, TRUE)

\* ------------------------------------------------------ representations
\* adjacency_dict with the second append skipped for a self-loop
RECURSIVE adjacency_dict_loop_once(_, _, _)
adjacency_dict_loop_once(adj, es, is_directed) ==
    IF es = <<>> THEN [status |-> "ok", value |-> adj]
    ELSE LET node1 == es[1][1]
             node2 == es[1][2]
         IN  IF node1 \notin DOMAIN adj THEN [status |-> "KeyError", value |-> None]
             ELSE LET a1 == [adj EXCEPT ![node1] = Append(@, node2)]
                  IN  IF is_directed \/ node1 = node2
                      THEN adjacency_dict_loop_once(a1, Tail(es), is_directed)
                      ELSE IF node2 \notin DOMAIN adj
                           THEN [status |-> "KeyError", value |-> None]
                           ELSE adjacency_dict_loop_once(
                                    [a1 EXCEPT ![node2] = Append(@, node1)],
                                    Tail(es), is_directed)

RECURSIVE adjacency_dict_loop(_, _, _)
adjacency_dict_loop(adj, es, is_directed) ==
    IF es = <<>> THEN [status |-> "ok", value |-> adj]
    ELSE LET node1 == es[1][1]
             node2 == es[1][2]
         IN  IF node1 \notin DOMAIN adj THEN [status |-> "KeyError", value |-> None]
             ELSE LET a1 == [adj EXCEPT ![node1] = Append(@, node2)]
                  IN  IF is_directed THEN adjacency_dict_loop(a1, Tail(es), is_directed)
                      ELSE IF node2 \notin DOMAIN adj
                           THEN [status |-> "KeyError", value |-> None]
                           ELSE adjacency_dict_loop([a1 EXCEPT ![node2] = Append(@, node1)],
                                                    Tail(es), is_directed)

adjacency_dict(h, graph) ==
    LET adj == [node \in range(graph.nodes) |-> <<>>]
        r   == adjacency_dict_loop(adj, h[graph.edges], graph.is_directed)
    IN  [h |-> h, status |-> r.status, value |-> r.value]

\* a Python list index: -n .. n-1 are the valid ones, negative ones count from the end
Index(i, n) == IF i < 0 THEN i + n ELSE i

\* adjacency_matrix with the second increment skipped for a self-loop
RECURSIVE adjacency_matrix_loop_once(_, _, _, _)
adjacency_matrix_loop_once(adj, es, is_directed, n) ==
    IF es = <<>> THEN [status |-> "ok", value |-> adj]
    ELSE LET node1 == Index(es[1][1], n)
             node2 == Index(es[1][2], n)
         IN  IF node1 \notin range(n) \/ node2 \notin range(n)
             THEN [status |-> "IndexError", value |-> None]
             ELSE LET a1 == [adj EXCEPT ![node1][node2] = @ + 1]
                  IN  IF is_directed \/ node1 = node2
                      THEN adjacency_matrix_loop_once(a1, Tail(es), is_directed, n)
                      ELSE adjacency_matrix_loop_once([a1 EXCEPT ![node2][node1] = @ + 1],
                                                      Tail(es), is_directed, n)

RECURSIVE adjacency_matrix_loop(_, _, _, _)
adjacency_matrix_loop(adj, es, is_directed, n) ==
    IF es = <<>> THEN [status |-> "ok", value |-> adj]
    ELSE LET node1 == Index(es[1][1], n)
             node2 == Index(es[1][2], n)
         IN  IF node1 \notin range(n) \/ node2 \notin range(n)
             THEN [status |-> "IndexError", value |-> None]
             ELSE LET a1 == [adj EXCEPT ![node1][node2] = @ + 1]
                  IN  IF is_directed THEN adjacency_matrix_loop(a1, Tail(es), is_directed, n)
                      ELSE adjacency_matrix_loop([a1 EXCEPT ![node2][node1] = @ + 1],
                                                 Tail(es), is_directed, n)

adjacency_matrix(h, graph) ==
    LET n   == graph.nodes
        adj == [i \in range(n) |-> [j \in range(n) |-> 0]]
        r   == adjacency_matrix_loop(adj, h[graph.edges], graph.is_directed, n)
    IN  [h |-> h, status |-> r.status, value |-> r.value]

\* --------------------------------------------------------- constructors
\* a node-count argument: an int, or a value of another type
IsInt(x) == x.type = "int"

\* _validate_num_nodes with the comparison "< 0"
_validate_num_nodes_lt0(num_nodes) ==
    IF ~IsInt(num_nodes) THEN "TypeError"
    ELSE IF num_nodes.val < 0 THEN "ValueError"
    ELSE "ok"

_validate_num_nodes(num_nodes) ==
    IF ~IsInt(num_nodes) THEN "TypeError"
    ELSE IF num_nodes.val < 1 THEN "ValueError"
    ELSE "ok"

\* path_graph with range(num_nodes) for range(num_nodes - 1)
path_graph_long(h, num_nodes, is_directed) ==
    LET v == _validate_num_nodes(num_nodes)
    IN  IF v # "ok" THEN Raise(h, v)
        ELSE LET n     == num_nodes.val
                 edges == NewList(h, [k \in 1 .. n |-> <<k - 1, k>>])
             IN  Ok(edges.h, Graph(n, edges.ref, is_directed))

\* path_graph handing out an edge list it has handed out before (a cached list)
path_graph_cached(h, num_nodes, is_directed) ==
    LET v == _validate_num_nodes(num_nodes)
    IN  IF v # "ok" THEN Raise(h, v)
        ELSE LET n     == num_nodes.val
                 elems == [k \in 1 .. (n - 1) |-> <<k - 1, k>>]
                 same  == {ref \in DOMAIN h : h[ref] = elems}
                 edges == IF same = {} THEN NewList(h, elems)
                          ELSE [h |-> h, ref |-> Min(same)]
             IN  Ok(edges.h, Graph(n, edges.ref, is_directed))

path_graph(h, num_nodes, is_directed) ==
    LET v == _validate_num_nodes(num_nodes)
    IN  IF v # "ok" THEN Raise(h, v)
        ELSE LET n     == num_nodes.val
                 edges == NewList(h, [k \in 1 .. (n - 1) |-> <<k - 1, k>>])
             IN  Ok(edges.h, Graph(n, edges.ref, is_directed))

\* cycle_graph closing the cycle with (0, n-1)
cycle_graph_swapped(h, num_nodes, is_directed) ==
    LET base_path == path_graph(h, num_nodes, is_directed)
    IN  IF base_path.status # "ok" THEN base_path
        ELSE Ok(ListAppend(base_path.h, base_path.value.edges, <<0, num_nodes.val - 1>>),
                base_path.value)

cycle_graph(h, num_nodes, is_directed) ==
    LET base_path == path_graph(h, num_nodes, is_directed)
    IN  IF base_path.status # "ok" THEN base_path
        ELSE Ok(ListAppend(base_path.h, base_path.value.edges, <<num_nodes.val - 1, 0>>),
                base_path.value)

\* itertools.combinations(range(n), 2), in the order it yields them
RECURSIVE combinations(_, _, _)
combinations(i, j, n) ==
    IF i >= n - 1 THEN <<>>
    ELSE IF j >= n THEN combinations(i + 1, i + 2, n)
    ELSE << <<i, j>> >> \o combinations(i, j + 1, n)

\* itertools.combinations_with_replacement(range(n), 2)
RECURSIVE combinations_with_replacement(_, _, _)
combinations_with_replacement(i, j, n) ==
    IF i >= n THEN <<>>
    ELSE IF j >= n THEN combinations_with_replacement(i + 1, i + 1, n)
    ELSE << <<i, j>> >> \o combinations_with_replacement(i, j + 1, n)

\* complete_graph built on combinations_with_replacement
complete_graph_with_replacement(h, num_nodes) ==
    LET v == _validate_num_nodes(num_nodes)
    IN  IF v # "ok" THEN Raise(h, v)
        ELSE LET n     == num_nodes.val
                 edges == NewList(h, combinations_with_replacement(0, 0, n))
             IN  Ok(edges.h, Graph(n, edges.ref, FALSE))

complete_graph(h, num_nodes) ==
    LET v == _validate_num_nodes(num_nodes)
    IN  IF v # "ok" THEN Raise(h, v)
        ELSE LET n     == num_nodes.val
                 edges == NewList(h, combinations(0, 1, n))
             IN  Ok(edges.h, Graph(n, edges.ref, FALSE))

\* star_graph with range(num_nodes) for range(1, num_nodes)
star_graph_from0(h, num_nodes) ==
    LET v == _validate_num_nodes(num_nodes)
    IN  IF v # "ok" THEN Raise(h, v)
        ELSE LET n     == num_nodes.val
                 edges == NewList(h, [k \in 1 .. n |-> <<0, k - 1>>])
             IN  Ok(edges.h, Graph(n, edges.ref, FALSE))

star_graph(h, num_nodes) ==
    LET v == _validate_num_nodes(num_nodes)
    IN  IF v # "ok" THEN Raise(h, v)
        ELSE LET n     == num_nodes.val
                 edges == NewList(h, [k \in 1 .. (n - 1) |-> <<0, k>>])
             IN  Ok(edges.h, Graph(n, edges.ref, FALSE))

\* -------------------------------------------------------------- degrees
_degrees(h, graph) ==
    LET adj_list == adjacency_dict(h, graph)
    IN  IF adj_list.status # "ok" THEN adj_list
        ELSE Ok(adj_list.h,
                [node \in DOMAIN adj_list.value |-> Len(adj_list.value[node])])

degrees(h, graph) ==
    IF graph.is_directed THEN Raise(h, "ValueError")
    ELSE _degrees(h, graph)

\* out_degrees without the directedness check
out_degrees_unchecked(h, graph) == _degrees(h, graph)

out_degrees(h, graph) ==
    IF graph.is_directed THEN _degrees(h, graph)
    ELSE Raise(h, "ValueError")

\* total_degrees counting on the directed graph itself
total_degrees_directed(h, graph) ==
    IF ~graph.is_directed THEN Raise(h, "ValueError")
    ELSE _degrees(h, graph)

total_degrees(h, graph) ==
    IF ~graph.is_directed THEN Raise(h, "ValueError")
    ELSE LET undirected_graph == Graph(graph.nodes, graph.edges, FALSE)
         IN  degrees(h, undirected_graph)

in_degrees(h, graph) ==
    IF ~graph.is_directed THEN Raise(h, "ValueError")
    ELSE LET es             == h[graph.edges]
             reversed_edges == NewList(h, [k \in DOMAIN es |-> <<es[k][2], es[k][1]>>])
             reversed_graph == Graph(graph.nodes, reversed_edges.ref, TRUE)
         IN  out_degrees(reversed_edges.h, reversed_graph)

Values(f) == {f[x] : x \in DOMAIN f}

\* min(d.values()) / max(d.values()): ValueError on an empty mapping
py_min(r) ==
    IF r.status # "ok" THEN r
    ELSE IF DOMAIN r.value = {} THEN Raise(r.h, "ValueError")
    ELSE Ok(r.h, Min(Values(r.value)))

py_max(r) ==
    IF r.status # "ok" THEN r
    ELSE IF DOMAIN r.value = {} THEN Raise(r.h, "ValueError")
    ELSE Ok(r.h, Max(Values(r.value)))

min_degree(h, graph) == py_min(degrees(h, graph))

min_out_degree(h, graph) == py_min(out_degrees(h, graph))

min_in_degree(h, graph) == py_min(in_degrees(h, graph))

min_total_degree(h, graph) == py_min(total_degrees(h, graph))

max_degree(h, graph) == py_max(degrees(h, graph))

max_out_degree(h, graph) == py_max(out_degrees(h, graph))

max_in_degree(h, graph) == py_max(in_degrees(h, graph))

max_total_degree(h, graph) == py_max(total_degrees(h, graph))

\* ------------------------------------------------------------ the caller
\* the node-count arguments passed: ints from -MaxBad to MaxN, and one non-int
NumNodesInputs ==
    {[type |-> "int", val |-> v] : v \in (0 - MaxBad) .. MaxN} \cup {[type |-> "float", val |-> 2]}

Constructors == {"path_graph", "cycle_graph", "complete_graph", "star_graph"}

\* no call has been made, or the caller is done with the result of the last one
NoCall == [fn |-> "none", arg |-> None, status |-> "ok", value |-> None]

\* a constructor call returns: the caller keeps the Graph it got
Construct(fn, arg, r) ==
    /\ ret.fn = "none"
    /\ ret' = [fn |-> fn, arg |-> arg, status |-> r.status, value |-> r.value]
    /\ store' = IF r.status = "ok" THEN Append(store, r.value) ELSE store
    /\ heap' = Reclaim(r.h, store')

\* a call on the i-th Graph the caller holds returns
Analyse(fn, i, r) ==
    /\ ret.fn = "none"
    /\ ret' = [fn |-> fn, arg |-> i, status |-> r.status, value |-> r.value]
    /\ store' = store
    /\ heap' = Reclaim(r.h, store')

CallPathGraph ==
    /\ Len(store) < MaxGraphs
    /\ \E num_nodes \in NumNodesInputs, is_directed \in BOOLEAN :
          Construct("path_graph", [num_nodes |-> num_nodes, is_directed |-> is_directed],
                    path_graph(heap, num_nodes, is_directed))

CallCycleGraph ==
    /\ Len(store) < MaxGraphs
    /\ \E num_nodes \in NumNodesInputs, is_directed \in BOOLEAN :
          Construct("cycle_graph", [num_nodes |-> num_nodes, is_directed |-> is_directed],
                    cycle_graph(heap, num_nodes, is_directed))

CallCompleteGraph ==
    /\ Len(store) < MaxGraphs
    /\ \E num_nodes \in NumNodesInputs :
          Construct("complete_graph", [num_nodes |-> num_nodes, is_directed |-> FALSE],
                    complete_graph(heap, num_nodes))

CallStarGraph ==
    /\ Len(store) < MaxGraphs
    /\ \E num_nodes \in NumNodesInputs :
          Construct("star_graph", [num_nodes |-> num_nodes, is_directed |-> FALSE],
                    star_graph(heap, num_nodes))

CallAdjacencyDict ==
    \E i \in DOMAIN store : Analyse("adjacency_dict", i, adjacency_dict(heap, store[i]))

CallAdjacencyMatrix ==
    \E i \in DOMAIN store : Analyse("adjacency_matrix", i, adjacency_matrix(heap, store[i]))

CallDegrees ==
    \E i \in DOMAIN store : Analyse("degrees", i, degrees(heap, store[i]))

CallOutDegrees ==
    \E i \in DOMAIN store : Analyse("out_degrees", i, out_degrees(heap, store[i]))

CallInDegrees ==
    \E i \in DOMAIN store : Analyse("in_degrees", i, in_degrees(heap, store[i]))

CallTotalDegrees ==
    \E i \in DOMAIN store : Analyse("total_degrees", i, total_degrees(heap, store[i]))

CallMinDegree ==
    \E i \in DOMAIN store : Analyse("min_degree", i, min_degree(heap, store[i]))

CallMinOutDegree ==
    \E i \in DOMAIN store : Analyse("min_out_degree", i, min_out_degree(heap, store[i]))

CallMinInDegree ==
    \E i \in DOMAIN store : Analyse("min_in_degree", i, min_in_degree(heap, store[i]))

CallMinTotalDegree ==
    \E i \in DOMAIN store : Analyse("min_total_degree", i, min_total_degree(heap, store[i]))

CallMaxDegree ==
    \E i \in DOMAIN store : Analyse("max_degree", i, max_degree(heap, store[i]))

CallMaxOutDegree ==
    \E i \in DOMAIN store : Analyse("max_out_degree", i, max_out_degree(heap, store[i]))

CallMaxInDegree ==
    \E i \in DOMAIN store : Analyse("max_in_degree", i, max_in_degree(heap, store[i]))

CallMaxTotalDegree ==
    \E i \in DOMAIN store : Analyse("max_total_degree", i, max_total_degree(heap, store[i]))

\* the module has been imported: G is the one Graph there is
Init ==
    /\ heap = <<G_edges>>
    /\ store = <<G>>
    /\ ret = NoCall

\* calls are synchronous: the caller is done with a result before its next call
Drop ==
    /\ ret.fn # "none"
    /\ ret' = NoCall
    /\ UNCHANGED <<heap, store>>

NextAnalyse ==
    \/ CallAdjacencyDict
    \/ CallAdjacencyMatrix
    \/ CallDegrees
    \/ CallOutDegrees
    \/ CallInDegrees
    \/ CallTotalDegrees
    \/ CallMinDegree
    \/ CallMinOutDegree
    \/ CallMinInDegree
    \/ CallMinTotalDegree
    \/ CallMaxDegree
    \/ CallMaxOutDegree
    \/ CallMaxInDegree
    \/ CallMaxTotalDegree
    \/ Drop

Next ==
    \/ CallPathGraph
    \/ CallCycleGraph
    \/ CallCompleteGraph
    \/ CallStarGraph
    \/ NextAnalyse

Spec == Init /\ [][Next]_vars

\* the edge lists a caller can write over the nodes 0 .. n-1
EdgeLists(n) == UNION {[1 .. k -> range(n) \X range(n)] : k \in 0 .. MaxEdges}

\* the caller has built one Graph of its own, Graph(range(n), edges, is_directed)
InitCaller ==
    /\ \E n \in 0 .. MaxNodes, is_directed \in BOOLEAN :
          \E es \in EdgeLists(n) :
             /\ heap = <<es>>
             /\ store = <<Graph(n, 1, is_directed)>>
    /\ ret = NoCall

SpecCaller == InitCaller /\ [][NextAnalyse]_vars

\* ------------------------------------------------------------ properties
\* the sum of f over S
RECURSIVE Sum(_, _)
Sum(f, S) == IF S = {} THEN 0 ELSE LET x == CHOOSE y \in S : TRUE IN f[x] + Sum(f, S \ {x})

\* the last call was fn, made on a Graph the caller holds
Called(fn) == ret.fn = fn

\* the Graph and the edges an analytic call was made on
ArgGraph == store[ret.arg]

ArgEdges == heap[ArgGraph.edges]

\* the number of edges of es that are loops at node v
Loops(es, v) == Cardinality({k \in DOMAIN es : es[k][1] = v /\ es[k][2] = v})

\* the number of edge ends of es at node v
Ends(es, v) ==
    Cardinality({k \in DOMAIN es : es[k][1] = v}) + Cardinality({k \in DOMAIN es : es[k][2] = v})

HasLoop(es) == \E k \in DOMAIN es : es[k][1] = es[k][2]

HasParallel(es) == \E j, k \in DOMAIN es : j # k /\ es[j] = es[k]

\* C1: on an undirected graph, degrees returns a mapping whose values sum to
\* twice the number of edges, parallel edges and self-loops included.
C1_DegreeSum ==
    (Called("degrees") /\ ~ArgGraph.is_directed) =>
        /\ ret.status = "ok"
        /\ Sum(ret.value, DOMAIN ret.value) = 2 * Len(ArgEdges)

C1_Witness ==
    /\ Called("degrees") /\ ret.status = "ok"
    /\ ArgGraph.nodes = MaxNodes
    /\ Len(ArgEdges) = MaxEdges
    /\ HasLoop(ArgEdges)
    /\ \E k \in DOMAIN ArgEdges : ArgEdges[k][1] # ArgEdges[k][2]

\* C2: on a directed graph, total_degrees gives every node its in-degree plus
\* its out-degree: every edge end at the node counts, so a self-loop counts 2
\* and each parallel edge counts.
C2_TotalIsInPlusOut ==
    (Called("total_degrees") /\ ArgGraph.is_directed) =>
        /\ ret.status = "ok"
        /\ DOMAIN ret.value = range(ArgGraph.nodes)
        /\ \A v \in range(ArgGraph.nodes) :
              /\ ret.value[v] = in_degrees(heap, ArgGraph).value[v]
                                + out_degrees(heap, ArgGraph).value[v]
              /\ ret.value[v] = Ends(ArgEdges, v)
              /\ ret.value[v] >= 2 * Loops(ArgEdges, v)

C2_Witness ==
    /\ Called("total_degrees") /\ ret.status = "ok"
    /\ HasLoop(ArgEdges)
    /\ HasParallel(ArgEdges)
    /\ \E v \in range(ArgGraph.nodes) : ret.value[v] = 4

\* C3: degrees raises ValueError exactly on a directed graph; out_degrees,
\* in_degrees and total_degrees raise ValueError exactly on an undirected one.
\* A call that raises returns nothing; the others return a mapping on the nodes.
C3_Directedness ==
    LET raises  == ret.status = "ValueError" /\ ret.value = None
        returns == ret.status = "ok" /\ DOMAIN ret.value = range(ArgGraph.nodes)
    IN  /\ Called("degrees") => IF ArgGraph.is_directed THEN raises ELSE returns
        /\ ret.fn \in {"out_degrees", "in_degrees", "total_degrees"} =>
              IF ArgGraph.is_directed THEN returns ELSE raises

C3_Witness ==
    /\ Called("out_degrees")
    /\ ~ArgGraph.is_directed
    /\ ret.status = "ValueError"
    /\ Len(ArgEdges) > 0

\* C10: adjacency_matrix is n x n, entry [u][v] is the number of times v is in
\* adjacency_dict's list of u, row u sums to _degrees[u]; for an undirected
\* graph the matrix is symmetric and a self-loop at u adds 2 to entry [u][u].
C10_MatrixMatchesDict ==
    Called("adjacency_matrix") =>
        /\ ret.status = "ok"
        /\ LET n   == ArgGraph.nodes
               m   == ret.value
               d   == adjacency_dict(heap, ArgGraph).value
               deg == _degrees(heap, ArgGraph).value
           IN  /\ DOMAIN m = range(n)
               /\ \A u \in range(n) :
                     /\ DOMAIN m[u] = range(n)
                     /\ Sum(m[u], range(n)) = deg[u]
                     /\ \A v \in range(n) :
                           /\ m[u][v] = Cardinality({k \in DOMAIN d[u] : d[u][k] = v})
                           /\ ~ArgGraph.is_directed => m[u][v] = m[v][u]
                     /\ ~ArgGraph.is_directed => m[u][u] = 2 * Loops(ArgEdges, u)

C10_Witness ==
    /\ Called("adjacency_matrix") /\ ret.status = "ok"
    /\ ~ArgGraph.is_directed
    /\ ArgGraph.nodes = MaxNodes
    /\ \E u \in range(ArgGraph.nodes) : ret.value[u][u] = 2
    /\ \E u, v \in range(ArgGraph.nodes) : u # v /\ ret.value[u][v] = 1

\* a constructor call with an int node count of at least n returned a Graph
Built(fn, n) ==
    /\ ret.fn = fn
    /\ IsInt(ret.arg.num_nodes)
    /\ ret.arg.num_nodes.val >= n

\* the node count passed, and the edges of the Graph returned
ArgN == ret.arg.num_nodes.val

RetEdges == heap[ret.value.edges]

\* the degree of every node when the edges are read as undirected
UndirectedDegrees(graph) == _degrees(heap, Graph(graph.nodes, graph.edges, FALSE)).value

\* C4: for n >= 3, cycle_graph(n) has the edges of path_graph(n), in order,
\* followed by the closing edge (n-1, 0), and every node has undirected degree 2.
C4_CycleIsPathPlusClosingEdge ==
    Built("cycle_graph", 3) =>
        /\ ret.status = "ok"
        /\ LET p == path_graph(<<>>, ret.arg.num_nodes, ret.arg.is_directed)
           IN  /\ ret.value.nodes = p.value.nodes
               /\ ret.value.is_directed = p.value.is_directed
               /\ RetEdges = Append(p.h[p.value.edges], <<ArgN - 1, 0>>)
        /\ \A v \in range(ArgN) : UndirectedDegrees(ret.value)[v] = 2
        /\ ~ret.value.is_directed => \A v \in range(ArgN) : degrees(heap, ret.value).value[v] = 2

C4_Witness ==
    /\ Built("cycle_graph", 3) /\ ret.status = "ok"
    /\ ~ret.value.is_directed
    /\ Len(RetEdges) = ArgN

\* C5: for n >= 1, complete_graph(n) is undirected with n*(n-1)/2 edges, no
\* self-loop, no two edges on the same unordered pair, every degree n-1.
C5_CompleteGraph ==
    Built("complete_graph", 1) =>
        /\ ret.status = "ok"
        /\ ~ret.value.is_directed
        /\ ret.value.nodes = ArgN
        /\ 2 * Len(RetEdges) = ArgN * (ArgN - 1)
        /\ \A k \in DOMAIN RetEdges :
              /\ RetEdges[k][1] # RetEdges[k][2]
              /\ {RetEdges[k][1], RetEdges[k][2]} \subseteq range(ArgN)
        /\ \A j, k \in DOMAIN RetEdges :
              j # k => {RetEdges[j][1], RetEdges[j][2]} # {RetEdges[k][1], RetEdges[k][2]}
        /\ \A v \in range(ArgN) : degrees(heap, ret.value).value[v] = ArgN - 1

C5_Witness ==
    /\ Built("complete_graph", 3) /\ ret.status = "ok"
    /\ Len(RetEdges) = 3

\* C6: for n >= 1, path_graph(n) has nodes 0..n-1 and the n-1 edges (i, i+1),
\* i = 0..n-2, in that order; undirected with n >= 2, the two end nodes have
\* degree 1 and every other node degree 2.
C6_PathGraph ==
    Built("path_graph", 1) =>
        /\ ret.status = "ok"
        /\ ret.value.nodes = ArgN
        /\ ret.value.is_directed = ret.arg.is_directed
        /\ Len(RetEdges) = ArgN - 1
        /\ \A k \in 1 .. (ArgN - 1) : RetEdges[k] = <<k - 1, k>>
        /\ (~ret.value.is_directed /\ ArgN >= 2) =>
              \A v \in range(ArgN) :
                 degrees(heap, ret.value).value[v] = IF v \in {0, ArgN - 1} THEN 1 ELSE 2

C6_Witness ==
    /\ Built("path_graph", 3) /\ ret.status = "ok"
    /\ ~ret.value.is_directed
    /\ Len(RetEdges) = 2

\* C7: for n >= 2, star_graph(n) is undirected with the n-1 edges (0, i),
\* i = 1..n-1; node 0 has degree n-1 and every other node degree 1.
C7_StarGraph ==
    Built("star_graph", 2) =>
        /\ ret.status = "ok"
        /\ ~ret.value.is_directed
        /\ ret.value.nodes = ArgN
        /\ Len(RetEdges) = ArgN - 1
        /\ \A k \in 1 .. (ArgN - 1) : RetEdges[k] = <<0, k>>
        /\ \A v \in range(ArgN) :
              degrees(heap, ret.value).value[v] = IF v = 0 THEN ArgN - 1 ELSE 1

C7_Witness ==
    /\ Built("star_graph", 3) /\ ret.status = "ok"
    /\ Len(RetEdges) = 2

\* C8: a constructor called with an int n < 1 raises ValueError, returns no
\* Graph and leaves the heap as it was (cycle_graph appends no closing edge);
\* called with n >= 1 it returns a Graph on n nodes.
C8_Validation ==
    [][(ret'.fn \in Constructors /\ IsInt(ret'.arg.num_nodes)) =>
          IF ret'.arg.num_nodes.val < 1
          THEN /\ ret'.status = "ValueError"
               /\ ret'.value = None
               /\ store' = store
               /\ heap' = heap
          ELSE /\ ret'.status = "ok"
               /\ ret'.value \in [nodes : {ret'.arg.num_nodes.val},
                                  edges : DOMAIN heap',
                                  is_directed : BOOLEAN]
               /\ store' = Append(store, ret'.value)]_vars

C8_Witness ==
    /\ ret.fn = "cycle_graph"
    /\ IsInt(ret.arg.num_nodes)
    /\ ret.arg.num_nodes.val = 0
    /\ ret.status = "ValueError"
    /\ Len(store) > 1

\* C9: no call changes a Graph the caller holds or the edges in its list:
\* the analytic functions only read, in_degrees and total_degrees work on a
\* Graph of their own, and cycle_graph appends to the list its own path_graph
\* call made.
C9_GraphsNeverMutated ==
    [][\A i \in DOMAIN store :
          /\ i \in DOMAIN store'
          /\ store'[i] = store[i]
          /\ heap'[store[i].edges] = heap[store[i].edges]]_vars

\* the caller holds a path graph and a cycle graph built after it on the same
\* nodes, and has called in_degrees or total_degrees on one of its graphs
C9_Witness ==
    /\ ret.fn \in {"in_degrees", "total_degrees"}
    /\ ret.status = "ok"
    /\ \E i, j \in DOMAIN store :
          /\ i < j
          /\ store[i].nodes = store[j].nodes
          /\ store[i].nodes >= 2
          /\ heap[store[j].edges]
                = Append(heap[store[i].edges], <<store[i].nodes - 1, 0>>)
          /\ \A k \in DOMAIN heap[store[i].edges] :
                heap[store[i].edges][k] = <<k - 1, k>>

====
